---- MODULE Spec2Model ----
(***************************************************************************)
(* Model of the duck poll cog (src/duckpoll/duckpoll.py).                  *)
(*                                                                         *)
(* The cog's own state is the list stored under the config key "messages"  *)
(* (the tracked polls) and the send_stats tasks it has created and that    *)
(* have not run yet.  The chat service is the environment: which messages  *)
(* exist, who reacts with what, which fetches fail.  The config store is   *)
(* persistent, so the list the cog starts with is whatever the store       *)
(* holds: a list of poll records with distinct message identifiers.        *)
(*                                                                         *)
(* Three specifications share the definitions of the handlers.  In Spec    *)
(* every handler is one action: it runs from its first line to its return  *)
(* or to the exception that leaves it, the write-back of the config        *)
(* context manager included.  LiveSpec is Spec with the fairness of the    *)
(* clock and of the 60-second loop.  StepSpec runs the handlers from one   *)
(* await to the next, so that they interleave.                             *)
(***************************************************************************)
EXTENDS Integers, Sequences, FiniteSets, TLC

VARIABLES
    messages,   \* the stored list: config.messages()
    tasks,      \* send_stats coroutines created by bot.create_task, not yet run
    now,        \* time.time(), in seconds
    live,       \* the identifiers of the messages that exist on the chat service
    last,       \* the report of the run that has just ended: its inputs, its API
                \* calls, its outcome; NoLast once the event loop has gone on
    running,    \* the callbacks that have started and not ended, each with its
                \* position and its locals (used where callbacks interleave)
    reacts      \* the emojis the member has on each message (used where
                \* callbacks interleave)

vars == <<messages, tasks, now, live, last, running, reacts>>

-----------------------------------------------------------------------------
(* Bounds of the model *)

MaxMsg == 3      \* message identifiers 1..MaxMsg
MaxTicks == 2    \* number of 60 s periods the clock advances
MaxCount == 2    \* largest reaction count on a fetched message

-----------------------------------------------------------------------------
(* Program constants *)

\* EMOJIS: the nine keycap emojis, written by their digit
EMOJIS == <<"1", "2", "3", "4", "5", "6", "7", "8", "9">>

EmojiSet == {EMOJIS[i] : i \in DOMAIN EMOJIS}

\* @tasks.loop(seconds=60)
LoopSeconds == 60

\* 60 * 60 * 24 in cleanup_messages
Day == 60 * 60 * 24

\* the text both duck_stats and send_stats use
NoPollsText == "No existing duck polls for this channel found"

PollQuestion == "On a rubber duck scale, how's your day going?"

-----------------------------------------------------------------------------
(* The environment: guild, channels, messages, users, emojis *)

None == "None"

TheGuild == "g1"

GuildChannels == {"a", "b"}

DMChannel == "dm"

Channels == GuildChannels \cup {DMChannel}

\* ctx.guild / message.guild of a channel
GuildOf(c) == IF c = DMChannel THEN None ELSE TheGuild

MsgIds == 1 .. MaxMsg

\* A message identifier belongs to one channel for ever.
ChannelOf(id) ==
    IF id % 4 = 3 THEN DMChannel ELSE IF id % 4 = 0 THEN "b" ELSE "a"

\* an emoji that is not one of EMOJIS
OtherEmoji == "thumbsup"

\* the emojis users react with in the model
UserEmojis == {"1", "2", OtherEmoji}

\* the emojis a user may have reacted with before the reaction of the event
PriorEmojis == {"1"}

Member == [id |-> "u1", bot |-> FALSE]

BotUser == [id |-> "bot", bot |-> TRUE]

Users == {Member, BotUser}

\* the times at which stored polls were created
CreatedTimes == {0, LoopSeconds}

BootTime == Day

\* the record format of DEFAULT_SETTINGS
Poll(id, t) ==
    [guild_id |-> GuildOf(ChannelOf(id)), channel_id |-> ChannelOf(id),
     message_id |-> id, created_at |-> t]

PollIds == {id \in MsgIds : ChannelOf(id) \in GuildChannels}

Range(s) == {s[i] : i \in DOMAIN s}

\* the lists the config store can hold at start: one record at most for a
\* message
StoredLists ==
    {s \in UNION {[1 .. n -> {Poll(id, t) : id \in PollIds, t \in CreatedTimes}] :
                    n \in 0 .. Cardinality(PollIds)} :
        \A i, j \in DOMAIN s : s[i].message_id = s[j].message_id => i = j}

-----------------------------------------------------------------------------
(* Python: builtins and the list operations the handlers use *)

\* all as the lambdas mean it: true when every argument is true
allOfArguments(args) ==
    IF \A i \in DOMAIN args : args[i] THEN "True" ELSE "False"

\* all(*args): the builtin takes exactly one argument, an iterable; called
\* with any other number of arguments it raises TypeError.
all(args) ==
    IF Len(args) # 1 THEN "TypeError"
    ELSE IF \A i \in DOMAIN args[1] : args[1][i] THEN "True" ELSE "False"

\* filter(f, ms), consumed, where f gives verdicts[i] for ms[i]: the exception
\* f raises on the first element where it raises one, "none" when it raises
\* none.
FilterError(verdicts) ==
    IF \A i \in DOMAIN verdicts : verdicts[i] \in {"True", "False"} THEN "none"
    ELSE LET i == CHOOSE k \in DOMAIN verdicts :
                    /\ verdicts[k] \notin {"True", "False"}
                    /\ \A j \in 1 .. k - 1 : verdicts[j] \in {"True", "False"}
         IN verdicts[i]

RECURSIVE FilterItems(_, _)
\* filter(f, ms), consumed without exception: the elements f accepts, in order
FilterItems(ms, verdicts) ==
    IF ms = <<>> THEN <<>>
    ELSE (IF Head(verdicts) = "True" THEN <<Head(ms)>> ELSE <<>>)
            \o FilterItems(Tail(ms), Tail(verdicts))

\* ListRemove that shifts the later elements down and keeps the length: the
\* last element is left twice
ListRemoveKeepLength(ms, x) ==
    IF \E i \in DOMAIN ms : ms[i] = x
    THEN LET i == CHOOSE k \in DOMAIN ms : ms[k] = x /\ \A j \in 1 .. k - 1 : ms[j] # x
         IN SubSeq(ms, 1, i - 1) \o SubSeq(ms, i + 1, Len(ms)) \o <<ms[Len(ms)]>>
    ELSE ms

\* list.remove(x): removes the first element equal to x
ListRemove(ms, x) ==
    IF \E i \in DOMAIN ms : ms[i] = x
    THEN LET i == CHOOSE k \in DOMAIN ms : ms[k] = x /\ \A j \in 1 .. k - 1 : ms[j] # x
         IN SubSeq(ms, 1, i - 1) \o SubSeq(ms, i + 1, Len(ms))
    ELSE ms

RECURSIVE InsertByCreatedAt(_, _)
\* one step of a stable sort by created_at: m goes after every element whose
\* key is not greater
InsertByCreatedAt(sorted, m) ==
    IF sorted = <<>> THEN <<m>>
    ELSE IF m.created_at < Head(sorted).created_at THEN <<m>> \o sorted
    ELSE <<Head(sorted)>> \o InsertByCreatedAt(Tail(sorted), m)

RECURSIVE SortedByCreatedAt(_)
\* sorted(ms, key=lambda m: m["created_at"]): ascending and stable
SortedByCreatedAt(ms) ==
    IF ms = <<>> THEN <<>>
    ELSE InsertByCreatedAt(SortedByCreatedAt(SubSeq(ms, 1, Len(ms) - 1)), ms[Len(ms)])

RECURSIVE SumValues(_, _)
\* sum(stats.values())
SumValues(f, keys) ==
    IF keys = {} THEN 0
    ELSE LET k == CHOOSE x \in keys : TRUE IN f[k] + SumValues(f, keys \ {k})

\* round(n / d) for integers n >= 0, d > 0: Python rounds a half to the even
\* neighbour
RoundDiv(n, d) ==
    LET q == n \div d
        r == n % d
    IN IF 2 * r < d THEN q
       ELSE IF 2 * r > d THEN q + 1
       ELSE IF q % 2 = 0 THEN q ELSE q + 1

-----------------------------------------------------------------------------
(* What a handler leaves behind: how it ended, the stored list after the    *)
(* config context manager has written it back, the API calls it made.      *)

\* the stats of a run that has not called get_stats
NoStats == [e \in EmojiSet |-> 0]

\* no embed has been made
NoEmbed == [raised |-> "not made", link |-> <<>>, fields |-> <<>>]

Returned(ms, calls) ==
    [outcome |-> "return", messages |-> ms, calls |-> calls, fetched |-> FALSE,
     stats |-> NoStats, embed |-> NoEmbed]

Raised(exc, ms, calls) ==
    [outcome |-> exc, messages |-> ms, calls |-> calls, fetched |-> FALSE,
     stats |-> NoStats, embed |-> NoEmbed]

\* the same, for a run that fetched the poll message, got stats from
\* get_stats and called make_stats_embed
AfterFetch(r, stats, embed) ==
    [r EXCEPT !.fetched = TRUE, !.stats = stats, !.embed = embed]

Call(api, channel, id, arg) ==
    [api |-> api, channel_id |-> channel, message_id |-> id, arg |-> arg]

-----------------------------------------------------------------------------
(* Utility methods *)

\* StatsReactions with the bot's own reaction counted as a vote
StatsReactionsWithBot(reactions) ==
    [e \in {reactions[i].emoji : i \in {k \in DOMAIN reactions :
                                                reactions[k].emoji \in EmojiSet}} |->
        reactions[CHOOSE i \in DOMAIN reactions : reactions[i].emoji = e].count]

\* the dict comprehension of get_stats: one key per reaction of the message
\* whose emoji is in EMOJIS, a later reaction of the same emoji replacing an
\* earlier one; the value is the reaction's count minus one
StatsReactions(reactions) ==
    LET at(e) == CHOOSE i \in DOMAIN reactions :
                    /\ reactions[i].emoji = e
                    /\ \A j \in DOMAIN reactions : reactions[j].emoji = e => j <= i
    IN [e \in {reactions[i].emoji : i \in {k \in DOMAIN reactions :
                                                reactions[k].emoji \in EmojiSet}} |->
            reactions[at(e)].count - 1]

\* get_stats(message): reactions.get(emoji, 0) for every emoji of EMOJIS
get_stats(reactions) ==
    LET found == StatsReactions(reactions)
    IN [e \in EmojiSet |-> IF e \in DOMAIN found THEN found[e] ELSE 0]

\* what make_stats_embed is given as data: a stored poll record, or the
\* Message object send_stats has rebound its parameter to
StoredData(poll) == [kind |-> "dict", poll |-> poll]

MessageData(id) == [kind |-> "Message", poll |-> Poll(id, 0)]

\* one field of the embed: add_field(name, value) for the item (emoji, votes)
EmbedField(emoji, votes, sum_of_votes) ==
    [emoji |-> emoji, votes |-> votes,
     filled |-> RoundDiv(votes * 10, sum_of_votes),
     width |-> IF RoundDiv(votes * 10, sum_of_votes) > 10
               THEN RoundDiv(votes * 10, sum_of_votes) ELSE 10,
     percent |-> RoundDiv(votes * 100, sum_of_votes)]

\* make_stats_embed(ctx, stats, data): subscripting a Message raises TypeError
\* while the description is built; dividing by a vote total of 0 raises
\* ZeroDivisionError in the first field
make_stats_embed(stats, data) ==
    LET sum_of_votes == SumValues(stats, DOMAIN stats)
    IN IF data.kind # "dict" THEN [raised |-> "TypeError", link |-> <<>>, fields |-> <<>>]
       ELSE IF sum_of_votes = 0
            THEN [raised |-> "ZeroDivisionError", link |-> <<>>, fields |-> <<>>]
       ELSE [raised |-> "none",
             link |-> <<data.poll.guild_id, data.poll.channel_id, data.poll.message_id>>,
             fields |-> [i \in DOMAIN EMOJIS |->
                            EmbedField(EMOJIS[i], stats[EMOJIS[i]], sum_of_votes)]]

\* send_stats_run with return_error taken as True: a message that cannot be
\* fetched is answered with the "no existing polls" text
send_stats_run_return_error(poll, guild_found, channel_found, fetch, reactions) ==
    IF ~guild_found THEN Returned(<<>>, <<>>)
    ELSE IF ~channel_found THEN Returned(<<>>, <<>>)
    ELSE IF fetch # "ok"
         THEN Returned(<<>>, <<Call("send", poll.channel_id, 0, NoPollsText)>>)
    ELSE LET stats == get_stats(reactions)
             embed == make_stats_embed(stats, MessageData(poll.message_id))
         IN IF embed.raised # "none"
            THEN AfterFetch(Raised(embed.raised, <<>>, <<>>), stats, embed)
            ELSE AfterFetch(Returned(<<>>, <<Call("send_embed", poll.channel_id,
                                                  poll.message_id, "stats")>>),
                            stats, embed)

\* send_stats(message): the guild and the channel are looked up, the message
\* is fetched; return_error is False in the only call there is. send_stats
\* does not open the stored list: the messages field of its result is empty
\* and is not used.
send_stats_run(poll, guild_found, channel_found, fetch, reactions) ==
    IF ~guild_found THEN Returned(<<>>, <<>>)
    ELSE IF ~channel_found THEN Returned(<<>>, <<>>)
    ELSE IF fetch # "ok" THEN Returned(<<>>, <<>>)
    ELSE LET stats == get_stats(reactions)
             embed == make_stats_embed(stats, MessageData(poll.message_id))
         IN IF embed.raised # "none"
            THEN AfterFetch(Raised(embed.raised, <<>>, <<>>), stats, embed)
            ELSE AfterFetch(Returned(<<>>, <<Call("send_embed", poll.channel_id,
                                                  poll.message_id, "stats")>>),
                            stats, embed)

-----------------------------------------------------------------------------
(* Events *)

\* IgnoredReaction with "and" for "or"
IgnoredReactionBoth(user, message) == user.bot /\ message.guild = None

\* the first test of on_reaction_add
IgnoredReaction(user, message) == user.bot \/ message.guild = None

\* the lambda of lines 36-40
IsReactedPoll(m, message) ==
    all(<<m.guild_id = message.guild, m.channel_id = message.channel,
          m.message_id = message.id>>)

\* line 52: how many of the message's reactions the user is in
ReactionsOfUser(reactions, user) ==
    Cardinality({e \in DOMAIN reactions : user.id \in reactions[e]})

\* on_reaction_add(reaction, user), reaction.message being message and
\* reaction.emoji being emoji
on_reaction_add_run(ms, user, message, emoji) ==
    IF IgnoredReaction(user, message) THEN Returned(ms, <<>>)
    ELSE LET verdicts == [i \in DOMAIN ms |-> IsReactedPoll(ms[i], message)]
         IN IF FilterError(verdicts) # "none" THEN Raised(FilterError(verdicts), ms, <<>>)
            ELSE IF FilterItems(ms, verdicts) = <<>> THEN Returned(ms, <<>>)
            ELSE IF emoji \notin EmojiSet
                 THEN Returned(ms, <<Call("clear_reaction", message.channel, message.id, emoji)>>)
            ELSE IF ReactionsOfUser(message.reactions, user) > 1
                 THEN Returned(ms, <<Call("remove_reaction", message.channel, message.id, emoji)>>)
            ELSE Returned(ms, <<>>)

\* the first test of on_message_delete
IgnoredDelete(message) == message.guild = None \/ ~message.author_bot

\* the lambda of lines 67-69
IsDeletedPoll(m, message) ==
    all(<<m.guild_id = message.guild, m.channel_id = message.channel,
          m.message_id = message.id>>)

\* on_message_delete(message): unpacking the filter into a 1-tuple raises
\* ValueError unless exactly one element passes, and ValueError is caught
on_message_delete_run(ms, message) ==
    IF IgnoredDelete(message) THEN Returned(ms, <<>>)
    ELSE LET verdicts == [i \in DOMAIN ms |-> IsDeletedPoll(ms[i], message)]
         IN IF FilterError(verdicts) # "none" THEN Raised(FilterError(verdicts), ms, <<>>)
            ELSE IF Len(FilterItems(ms, verdicts)) # 1 THEN Returned(ms, <<>>)
            ELSE Returned(ListRemove(ms, FilterItems(ms, verdicts)[1]), <<>>)

-----------------------------------------------------------------------------
(* Tasks *)

\* IsOld with the comparison turned round: no record that is 24 hours old
\* passes
IsOldTurned(m, t) == m.created_at > t - Day

\* IsOld without the 24 hours: every record created before now is old
IsOldNoDay(m, t) == m.created_at < t

\* the test of the filter in cleanup_messages
IsOld(m, t) == m.created_at < t - Day

RECURSIVE CleanupLoop(_, _, _, _)
\* The list comprehension of cleanup_messages. filter() walks the list by
\* position while the body removes from that same list: the iterator looks at
\* position i, and after a removal goes on at position i + 1 of the list as it
\* is then.
CleanupLoop(ms, i, t, created) ==
    IF i > Len(ms) THEN [messages |-> ms, created |-> created]
    ELSE IF IsOld(ms[i], t)
         THEN CleanupLoop(ListRemove(ms, ms[i]), i + 1, t, Append(created, ms[i]))
    ELSE CleanupLoop(ms, i + 1, t, created)

\* cleanup_messages(): the stored list afterwards and the send_stats tasks created
cleanup_messages_run(ms, t) == CleanupLoop(ms, 1, t, <<>>)

-----------------------------------------------------------------------------
(* Commands *)

\* the nine add_reaction calls of duck
AddReactions(channel, id) ==
    [i \in DOMAIN EMOJIS |-> Call("add_reaction", channel, id, EMOJIS[i])]

\* duck(ctx): ctx.invoked_subcommand is None whenever the group callback runs
\* (invoke_without_command=True); the image is fetched, the question sent as
\* message id, the nine reactions added
duck_run(ms, channel, id, image_ok) ==
    IF ~image_ok THEN Raised("ClientError", ms, <<>>)
    ELSE Returned(ms, <<Call("send", channel, id, PollQuestion)>> \o AddReactions(channel, id))

\* the lambda of line 108; ctx.guild is None in a direct message, and
\* ctx.guild.id then raises AttributeError
IsChannelPoll(m, ctx) ==
    IF ctx.guild = None THEN "AttributeError"
    ELSE all(<<m.guild_id = ctx.guild, m.channel_id = ctx.channel>>)

\* the poll duck_stats takes from the sorted list
SelectedPoll(channel_duck_polls) == channel_duck_polls[1]

\* duck_stats(ctx): fetch says how ctx.channel.fetch_message ends for the
\* selected poll, reactions are those of the fetched message
duck_stats_run(ms, ctx, fetch, reactions) ==
    LET verdicts == [i \in DOMAIN ms |-> IsChannelPoll(ms[i], ctx)]
        noPolls == Call("send", ctx.channel, 0, NoPollsText)
    IN IF FilterError(verdicts) # "none" THEN Raised(FilterError(verdicts), ms, <<>>)
       ELSE LET channel_duck_polls == SortedByCreatedAt(FilterItems(ms, verdicts))
            IN IF channel_duck_polls = <<>> THEN Returned(ms, <<noPolls>>)
               ELSE IF fetch[SelectedPoll(channel_duck_polls).message_id] # "ok"
                    THEN Returned(ms, <<noPolls>>)
               ELSE LET poll == SelectedPoll(channel_duck_polls)
                        stats == get_stats(reactions)
                        embed == make_stats_embed(stats, StoredData(poll))
                    IN IF embed.raised # "none"
                       THEN AfterFetch(Raised(embed.raised, ms, <<>>), stats, embed)
                       ELSE AfterFetch(Returned(ms, <<Call("send_embed", ctx.channel,
                                                           poll.message_id, "stats")>>),
                                       stats, embed)

-----------------------------------------------------------------------------
(* Inputs from the chat service *)

\* how a fetch_message call can end
FetchOutcomes == {"ok", "Forbidden"}

\* fetch_message(id) when the service would answer f for an existing message:
\* a message that does not exist is NotFound
Fetch(alive, id, f) == IF id \notin alive /\ f = "ok" THEN "NotFound" ELSE f

\* the order in which the service lists the reactions of a message
EmojiOrder == <<"1", "2", OtherEmoji>>

RECURSIVE ReactionList(_, _)
\* message.reactions for the counts c: one entry per emoji with a count above 0
ReactionList(c, i) ==
    IF i > Len(EmojiOrder) THEN <<>>
    ELSE (IF c[EmojiOrder[i]] > 0
          THEN <<[emoji |-> EmojiOrder[i], count |-> c[EmojiOrder[i]]]>>
          ELSE <<>>) \o ReactionList(c, i + 1)

ReactionLists == {ReactionList(c, 1) : c \in [UserEmojis -> 0 .. MaxCount]}

\* the reaction lists a run can see: any, when it fetches the message
FetchedReactions(fetched) == IF fetched THEN ReactionLists ELSE {<<>>}

\* message.reactions, by emoji, when user has just reacted with emoji and had
\* reacted with the emojis of prior before
ReactionsWith(user, emoji, prior) ==
    [e \in UserEmojis |-> IF e \in prior \cup {emoji} THEN {user.id} ELSE {}]

\* the reactions of the message once the service has carried out the calls
RECURSIVE ReactionsAfter(_, _, _)
ReactionsAfter(reactions, calls, user) ==
    IF calls = <<>> THEN reactions
    ELSE LET c == Head(calls)
             next == IF c.api = "clear_reaction"
                     THEN [reactions EXCEPT ![c.arg] = {}]
                     ELSE IF c.api = "remove_reaction"
                     THEN [reactions EXCEPT ![c.arg] = @ \ {user.id}]
                     ELSE reactions
         IN ReactionsAfter(next, Tail(calls), user)

\* the identifiers the cog still refers to
Referenced == {messages[i].message_id : i \in DOMAIN messages}
                \cup {tasks[i].message_id : i \in DOMAIN tasks}

-----------------------------------------------------------------------------
(* The state machine *)

NoLast ==
    [op |-> "start", outcome |-> "return", user |-> "none", message_id |-> 0,
     channel_id |-> "none", emoji |-> "none", prior |-> {},
     reactions |-> [e \in UserEmojis |-> {}], author_bot |-> FALSE,
     calls |-> <<>>, fetch |-> "none", fetched |-> FALSE,
     reaction_list |-> <<>>, stats |-> NoStats, lookup |-> "none",
     embed |-> NoEmbed]

Init ==
    /\ messages \in StoredLists
    /\ tasks = <<>>
    /\ now = BootTime
    /\ live \in SUBSET MsgIds
    /\ last = NoLast
    /\ running = {}
    /\ reacts = [id \in MsgIds |-> {}]

\* the event loop is between two runs
Idle == last = NoLast

\* the event loop goes on after a run: the report of the run is dropped (the
\* cog's state is not touched; runs start from an idle event loop, one at a
\* time)
EventLoopIdle ==
    /\ ~Idle
    /\ last' = NoLast
    /\ UNCHANGED <<messages, tasks, now, live, running, reacts>>

\* a loop period passes
Tick ==
    /\ Idle
    /\ now < BootTime + MaxTicks * LoopSeconds
    /\ now' = now + LoopSeconds
    /\ UNCHANGED <<messages, tasks, live, last, running, reacts>>

\* user reacts with emoji to message id, and the listener runs
on_reaction_add(user, id, emoji, prior) ==
    /\ Idle
    /\ id \in live
    /\ LET message == [guild |-> GuildOf(ChannelOf(id)), channel |-> ChannelOf(id),
                       id |-> id, reactions |-> ReactionsWith(user, emoji, prior)]
           r == on_reaction_add_run(messages, user, message, emoji)
       IN /\ messages' = r.messages
          /\ last' = [NoLast EXCEPT !.op = "on_reaction_add", !.outcome = r.outcome,
                         !.user = user.id, !.message_id = id,
                         !.channel_id = ChannelOf(id), !.emoji = emoji,
                         !.prior = prior, !.calls = r.calls,
                         !.reactions = ReactionsAfter(message.reactions, r.calls, user)]
    /\ UNCHANGED <<tasks, now, live, running, reacts>>

\* message id is deleted, and the listener runs; a tracked message is a
\* message of the bot
on_message_delete(id, author_bot) ==
    /\ Idle
    /\ id \in live
    /\ (\E i \in DOMAIN messages : messages[i].message_id = id) => author_bot
    /\ live' = live \ {id}
    /\ LET message == [guild |-> GuildOf(ChannelOf(id)), channel |-> ChannelOf(id),
                       id |-> id, author_bot |-> author_bot]
           r == on_message_delete_run(messages, message)
       IN /\ messages' = r.messages
          /\ last' = [NoLast EXCEPT !.op = "on_message_delete", !.outcome = r.outcome,
                         !.message_id = id, !.channel_id = ChannelOf(id),
                         !.author_bot = author_bot, !.calls = r.calls]
    /\ UNCHANGED <<tasks, now, running, reacts>>

\* the loop fires
cleanup_messages ==
    /\ Idle
    /\ LET r == cleanup_messages_run(messages, now)
       IN /\ messages' = r.messages
          /\ tasks' = tasks \o r.created
    /\ last' = [NoLast EXCEPT !.op = "cleanup_messages"]
    /\ UNCHANGED <<now, live, running, reacts>>

\* a send_stats task runs
send_stats(i, lookup, f) ==
    /\ Idle
    /\ i \in DOMAIN tasks
    /\ LET poll == tasks[i]
           fetch == Fetch(live, poll.message_id, f)
       IN \E reactions \in FetchedReactions(lookup = "ok" /\ fetch = "ok") :
            LET r == send_stats_run(poll, lookup # "no guild", lookup # "no channel",
                                    fetch, reactions)
            IN last' = [NoLast EXCEPT !.op = "send_stats", !.outcome = r.outcome,
                           !.message_id = poll.message_id,
                           !.channel_id = poll.channel_id, !.calls = r.calls,
                           !.fetch = fetch, !.fetched = r.fetched,
                           !.reaction_list = reactions,
                           !.stats = r.stats, !.lookup = lookup,
                           !.embed = r.embed]
    /\ tasks' = SubSeq(tasks, 1, i - 1) \o SubSeq(tasks, i + 1, Len(tasks))
    /\ UNCHANGED <<messages, now, live, running, reacts>>

\* the duck command, in the channel of the new message id
duck(id, image_ok) ==
    /\ Idle
    /\ id \in MsgIds \ (live \cup Referenced)
    /\ LET r == duck_run(messages, ChannelOf(id), id, image_ok)
       IN /\ messages' = r.messages
          /\ live' = IF r.outcome = "return" THEN live \cup {id} ELSE live
          /\ last' = [NoLast EXCEPT !.op = "duck", !.outcome = r.outcome,
                         !.message_id = id, !.channel_id = ChannelOf(id),
                         !.calls = r.calls]
    /\ UNCHANGED <<tasks, now, running, reacts>>

\* the duck stats command, in channel
duck_stats(channel, f) ==
    /\ Idle
    /\ LET ctx == [guild |-> GuildOf(channel), channel |-> channel]
           fetch == [id \in MsgIds |-> Fetch(live, id, f)]
           probe == duck_stats_run(messages, ctx, fetch, <<>>)
       IN \E reactions \in FetchedReactions(probe.fetched) :
            LET r == duck_stats_run(messages, ctx, fetch, reactions)
            IN /\ messages' = r.messages
               /\ last' = [NoLast EXCEPT !.op = "duck_stats", !.outcome = r.outcome,
                              !.channel_id = channel, !.calls = r.calls,
                              !.fetch = f, !.fetched = r.fetched,
                              !.reaction_list = reactions,
                              !.stats = r.stats, !.embed = r.embed]
    /\ UNCHANGED <<tasks, now, live, running, reacts>>

Next ==
    \/ EventLoopIdle
    \/ Tick
    \/ \E user \in Users, id \in MsgIds, emoji \in UserEmojis :
         \E prior \in SUBSET (PriorEmojis \ {emoji}) : on_reaction_add(user, id, emoji, prior)
    \/ \E id \in MsgIds, author_bot \in BOOLEAN : on_message_delete(id, author_bot)
    \/ cleanup_messages
    \/ \E i \in 1 .. MaxMsg, lookup \in {"ok", "no guild", "no channel"}, f \in FetchOutcomes :
         send_stats(i, lookup, f)
    \/ \E id \in MsgIds, image_ok \in BOOLEAN : duck(id, image_ok)
    \/ \E channel \in Channels, f \in FetchOutcomes : duck_stats(channel, f)

Spec == Init /\ [][Next]_vars

-----------------------------------------------------------------------------
(* Properties *)

\* the stored list holds a record for the message id of channel
Tracked(ms, id) ==
    \E i \in DOMAIN ms :
        /\ ms[i].guild_id = GuildOf(ChannelOf(id))
        /\ ms[i].channel_id = ChannelOf(id)
        /\ ms[i].message_id = id

\* the records of the stored list for channel
PollsOf(ms, channel) ==
    SelectSeq(ms, LAMBDA m : m.guild_id = GuildOf(channel) /\ m.channel_id = channel)

\* the emojis user has on the message of the last on_reaction_add, once the
\* calls of the listener have been carried out
EmojisOf(user) == {e \in DOMAIN last.reactions : user.id \in last.reactions[e]}

\* C1: once duck has completed in a guild channel, the stored list holds a
\* record with the guild, channel and message identifiers of the message duck
\* sent and with the time of the invocation as created_at.
C1_DuckRecordsPoll ==
    (last.op = "duck" /\ last.outcome = "return" /\ last.channel_id \in GuildChannels)
        => \E i \in DOMAIN messages :
              messages[i] = [guild_id |-> GuildOf(last.channel_id),
                             channel_id |-> last.channel_id,
                             message_id |-> last.message_id,
                             created_at |-> now]

\* C2: when a member who has one recognized reaction on a tracked poll adds a
\* second recognized reaction, exactly one of the member's reactions remains
\* on the message after on_reaction_add has run. (on_reaction_add leaves the
\* stored list as it is, so the list after the run says what was tracked.)
C2_OneReactionRemains ==
    (/\ last.op = "on_reaction_add"
     /\ last.user = Member.id
     /\ Tracked(messages, last.message_id)
     /\ last.emoji \in EmojiSet
     /\ Cardinality(last.prior) = 1
     /\ last.prior \subseteq EmojiSet)
        => Cardinality(EmojisOf(Member)) = 1

\* C3: after one run of cleanup_messages no record of the stored list has a
\* created_at more than 24 hours before the current time.
C3_NoOldPollAfterCleanup ==
    last.op = "cleanup_messages"
        => \A i \in DOMAIN messages : ~(now - messages[i].created_at > 24 * 60 * 60)

\* C4: on_message_delete of a tracked message removes the record of that
\* message and leaves every other record; on_message_delete of a message that
\* is not tracked leaves the stored list as it is.
C4_DeleteRemovesThatPoll ==
    [][last'.op = "on_message_delete"
        => IF Tracked(messages, last'.message_id)
           THEN /\ ~Tracked(messages', last'.message_id)
                /\ Len(messages') = Len(messages) - 1
                /\ messages' = SelectSeq(messages,
                                  LAMBDA m : m.message_id # last'.message_id)
           ELSE messages' = messages]_vars

\* C5: on_reaction_add for the reaction of a member on a tracked poll with an
\* emoji that is not one of the nine removes that reaction from the message
\* and leaves the stored list as it is.
C5_UnrecognizedReactionRemoved ==
    [][(/\ last'.op = "on_reaction_add"
        /\ last'.user = Member.id
        /\ Tracked(messages, last'.message_id)
        /\ last'.emoji \notin EmojiSet)
        => /\ Member.id \notin last'.reactions[last'.emoji]
           /\ messages' = messages]_vars

\* C6: on_reaction_add for the reaction of a bot account, or on a message
\* that is not in a guild, changes nothing whatever the stored list holds:
\* the listener returns, it has made no API call (no reaction is removed),
\* and the stored list and the created tasks are as before.
C6_BotOrDirectMessageIgnored ==
    [][(/\ last'.op = "on_reaction_add"
        /\ (last'.user = BotUser.id \/ GuildOf(last'.channel_id) = None))
        => /\ last'.outcome = "return"
           /\ last'.calls = <<>>
           /\ last'.reactions = ReactionsWith([id |-> last'.user], last'.emoji, last'.prior)
           /\ messages' = messages
           /\ tasks' = tasks]_vars

\* C6 witness: the bot's own reaction on a tracked poll has been handled
C6_Witness ==
    /\ last.op = "on_reaction_add"
    /\ last.user = BotUser.id
    /\ Tracked(messages, last.message_id)

\* C7: on_reaction_add for the reaction of a member on a guild message that
\* is not tracked completes without removing any reaction and without
\* changing the stored list, also when the list holds other polls.
C7_UntrackedMessageNoOp ==
    [][(/\ last'.op = "on_reaction_add"
        /\ last'.user = Member.id
        /\ GuildOf(last'.channel_id) # None
        /\ ~Tracked(messages, last'.message_id))
        => /\ last'.outcome = "return"
           /\ last'.calls = <<>>
           /\ messages' = messages]_vars

\* C8: the mapping get_stats returns has exactly the nine recognized labels
\* as keys; a label that is on the message maps to the count of its reaction
\* minus one, a label that is not on the message maps to 0, and no other
\* emoji of the message is a key.
C8_StatsOfNineLabels ==
    last.fetched
        => LET rs == last.reaction_list
           IN /\ DOMAIN last.stats = {"1", "2", "3", "4", "5", "6", "7", "8", "9"}
              /\ \A i \in DOMAIN rs :
                    IF rs[i].emoji \in DOMAIN last.stats
                    THEN last.stats[rs[i].emoji] = rs[i].count - 1
                    ELSE rs[i].emoji \notin EmojiSet
              /\ \A e \in DOMAIN last.stats :
                    (\A i \in DOMAIN rs : rs[i].emoji # e) => last.stats[e] = 0

\* C8 witness: get_stats has run on a message with two reactions of a
\* recognized label, none of another and one of an emoji outside the nine
C8_Witness ==
    /\ last.op = "send_stats"
    /\ last.fetched
    /\ last.stats["1"] = 1
    /\ last.stats["2"] = 0
    /\ \E i \in DOMAIN last.reaction_list : last.reaction_list[i].emoji = OtherEmoji

\* the record of channel with the greatest created_at, when there is one
\* record greater than every other
IsLatest(ms, channel, m) ==
    /\ \E i \in DOMAIN PollsOf(ms, channel) : PollsOf(ms, channel)[i] = m
    /\ \A i \in DOMAIN PollsOf(ms, channel) :
          PollsOf(ms, channel)[i] # m => PollsOf(ms, channel)[i].created_at < m.created_at

\* C9: duck stats in a channel with several tracked polls reports the tally
\* of the poll of that channel with the greatest created_at (when the message
\* of that poll can be fetched).
C9_StatsOfLatestPoll ==
    [][(/\ last'.op = "duck_stats"
        /\ Len(PollsOf(messages, last'.channel_id)) > 1)
        => \A i \in DOMAIN messages :
              (/\ IsLatest(messages, last'.channel_id, messages[i])
               /\ Fetch(live, messages[i].message_id, last'.fetch) = "ok")
                => /\ last'.fetched
                   /\ \E k \in DOMAIN last'.calls :
                         /\ last'.calls[k].api = "send_embed"
                         /\ last'.calls[k].message_id = messages[i].message_id]_vars

\* C10: when duck stats is invoked in a channel that has tracked polls and
\* the message of the poll cannot be fetched, the invoking user is sent the
\* "no existing polls" text, no stats are sent, and the stored list is
\* unchanged. (No message of a poll of the channel can be fetched, so this is
\* so for whichever poll is selected.)
C10_FetchFailureReported ==
    [][(/\ last'.op = "duck_stats"
        /\ PollsOf(messages, last'.channel_id) # <<>>
        /\ \A i \in DOMAIN messages :
              messages[i].channel_id = last'.channel_id
                => Fetch(live, messages[i].message_id, last'.fetch) # "ok")
        => /\ last'.calls = <<Call("send", last'.channel_id, 0, NoPollsText)>>
           /\ messages' = messages]_vars

\* C11: duck stats in a guild channel for which the stored list holds no
\* record (the list is empty, or it holds records of other channels only)
\* sends the "no existing polls" text to that channel and leaves the stored
\* list as it is.
C11_NoPollOfChannelReported ==
    [][(/\ last'.op = "duck_stats"
        /\ last'.channel_id \in GuildChannels
        /\ PollsOf(messages, last'.channel_id) = <<>>)
        => /\ last'.outcome = "return"
           /\ last'.calls = <<Call("send", last'.channel_id, 0, NoPollsText)>>
           /\ messages' = messages]_vars

\* C12: in the expiry task, a guild, a channel or a message that cannot be
\* found is passed over in silence: the send_stats run of the expired poll
\* returns without an error and without any call to the chat service, and
\* the poll is out of the stored list: the cleanup_messages run that created
\* the send_stats task had removed it.
C12_LookupFailureSwallowed ==
    [][/\ (last'.op = "send_stats" /\ (last'.lookup # "ok" \/ last'.fetch # "ok"))
            => /\ last'.outcome = "return"
               /\ last'.calls = <<>>
               /\ ~Tracked(messages', last'.message_id)
               /\ messages' = messages
       /\ last'.op = "cleanup_messages"
            => \A i \in DOMAIN tasks' :
                  i > Len(tasks) => /\ ~Tracked(messages', tasks'[i].message_id)
                                    /\ Tracked(messages, tasks'[i].message_id)]_vars

\* C12 witness: the send_stats task of an expired poll has found the message
\* of the poll deleted, while another poll is still stored
C12_Witness ==
    /\ last.op = "send_stats"
    /\ last.lookup = "ok"
    /\ last.fetch = "NotFound"
    /\ messages # <<>>

\* the calls of the run just ended that send the stats embed of message id
\* to channel
StatsEmissions(calls, channel, id) ==
    {k \in DOMAIN calls : /\ calls[k].api = "send_embed"
                          /\ calls[k].channel_id = channel
                          /\ calls[k].message_id = id}

\* C13: for a poll removed by expiry whose message can be fetched, the stats
\* are sent to the channel of the poll exactly once, and they are sent before
\* the poll is removed: the send_stats run of the poll makes exactly one
\* send of the stats embed, to the channel of the poll, the poll is still in
\* the stored list when that send is made, and no second task for the poll
\* is waiting to send again.
C13_StatsEmittedOnceBeforeRemoval ==
    (last.op = "send_stats" /\ last.lookup = "ok" /\ last.fetch = "ok")
        => /\ Cardinality(StatsEmissions(last.calls, ChannelOf(last.message_id),
                                          last.message_id)) = 1
           /\ Len(last.calls) = 1
           /\ Tracked(messages, last.message_id)
           /\ \A i \in DOMAIN tasks : tasks[i].message_id # last.message_id

\* C14: a record leaves the stored list only in on_message_delete of the
\* message of that record, or in cleanup_messages when it is more than 24
\* hours old; on_reaction_add, duck stats and send_stats leave the stored
\* list exactly as it is; and no step other than duck puts a record in the
\* list or changes one (every record of the list after a step was in the
\* list before it, in the same order).
C14_OnlyDeletionOrExpiryRemoves ==
    [][/\ \A i \in DOMAIN messages :
            (\A j \in DOMAIN messages' : messages'[j] # messages[i])
                => \/ /\ last'.op = "on_message_delete"
                      /\ last'.message_id = messages[i].message_id
                   \/ /\ last'.op = "cleanup_messages"
                      /\ now - messages[i].created_at > 24 * 60 * 60
       /\ last'.op \in {"on_reaction_add", "duck_stats", "send_stats", "start"}
            => messages' = messages
       /\ last'.op # "duck"
            => messages' = SelectSeq(messages,
                              LAMBDA m : \E j \in DOMAIN messages' : messages'[j] = m)]_vars

\* C14 witness: cleanup_messages has removed an expired poll and left one
\* that is not expired
C14_Witness ==
    /\ last.op = "cleanup_messages"
    /\ tasks # <<>>
    /\ \E i \in DOMAIN messages : ~(now - messages[i].created_at > 24 * 60 * 60)

C16_FirstReactionKept ==
    (/\ last.op = "on_reaction_add"
     /\ last.user = Member.id
     /\ Tracked(messages, last.message_id)
     /\ last.emoji \in EmojiSet
     /\ last.prior # {}
     /\ last.prior \subseteq EmojiSet)
        => /\ EmojisOf(Member) = last.prior
           /\ \A k \in DOMAIN last.calls :
                 last.calls[k].api = "remove_reaction" => last.calls[k].arg = last.emoji
           /\ \E k \in DOMAIN last.calls :
                 last.calls[k] = Call("remove_reaction", last.channel_id,
                                      last.message_id, last.emoji)

\* n / d rounded to an integer the way round() does: r is a nearest integer,
\* and the even one when two are equally near
IsRounded(r, n, d) ==
    LET twice == IF 2 * n >= 2 * r * d THEN 2 * n - 2 * r * d ELSE 2 * r * d - 2 * n
    IN /\ twice <= d
       /\ twice = d => r % 2 = 0

\* C17: whenever make_stats_embed is called with the stats of a fetched poll
\* message it completes, and the embed has one field for each of the nine
\* labels, in the order of EMOJIS, whose bar is 10 cells wide with
\* round(10 * count / total) of them filled and whose percentage is
\* round(100 * count / total), and it has the link made of the guild,
\* channel and message identifiers of the poll.
C17_EmbedOfStats ==
    last.fetched
        => LET total == SumValues(last.stats, DOMAIN last.stats)
               fields == last.embed.fields
           IN /\ last.embed.raised = "none"
              /\ last.outcome = "return"
              /\ Len(fields) = 9
              /\ \A i \in DOMAIN fields :
                    /\ fields[i].emoji = EMOJIS[i]
                    /\ fields[i].votes = last.stats[EMOJIS[i]]
                    /\ fields[i].width = 10
                    /\ IsRounded(fields[i].filled, 10 * fields[i].votes, total)
                    /\ IsRounded(fields[i].percent, 100 * fields[i].votes, total)
              /\ last.embed.link = <<GuildOf(ChannelOf(last.message_id)),
                                     ChannelOf(last.message_id), last.message_id>>

-----------------------------------------------------------------------------
(* Liveness *)

\* Time goes on and the 60-second loop keeps firing (tasks.loop restarts the
\* body every period; no exception leaves the body), and the event loop comes
\* back to idle after every callback.
LiveSpec ==
    /\ Spec
    /\ WF_vars(EventLoopIdle)
    /\ SF_vars(Tick)
    /\ SF_vars(cleanup_messages)

\* C20: every record that is in the stored list at some time is out of it at
\* a later time, when time goes on and cleanup_messages keeps firing,
\* whatever the number and the order of the records.
C20_EveryPollEventuallyRemoved ==
    \A id \in PollIds, t \in CreatedTimes :
        (\E i \in DOMAIN messages : messages[i] = Poll(id, t))
            ~> (\A i \in DOMAIN messages : messages[i] # Poll(id, t))

\* C20 witness: a run of cleanup_messages has emptied the stored list, the
\* record it removed having been passed over by an earlier run
C20_Witness ==
    /\ last.op = "cleanup_messages"
    /\ messages = <<>>
    /\ Len(tasks) > 1
    /\ Len(tasks) = Cardinality(PollIds)

-----------------------------------------------------------------------------
(* Interleaving of the callbacks *)

(***************************************************************************)
(* StepSpec runs the callbacks one stretch at a time, a stretch being the *)
(* code between two awaits, so that a callback can be overtaken by        *)
(* another at every await.  `async with self.config.messages()` reads the *)
(* stored list when the block is entered and hands the block its own      *)
(* copy; when the block is left, by its end, by return or by an           *)
(* exception, the copy is written back if the block has changed it.  No   *)
(* lock is taken to be held over the block: that admits every             *)
(* interleaving a locking store admits, and more.                         *)
(***************************************************************************)

\* how many callbacks can be under way at once (a bound of the model)
MaxRunning == 2

\* the messages the member reacts to where callbacks interleave; the member
\* reacts there with the recognized emojis of UserEmojis, bot messages in
\* guild channels are deleted, and duck stats is invoked in guild channels
ReactedIds == {1}

\* a callback that has been started for an event and has not run yet
Frame(op, id, channel, emoji) ==
    [op |-> op, pc |-> "enter", message_id |-> id, channel_id |-> channel,
     emoji |-> emoji, orig |-> <<>>, copy |-> <<>>, after |-> "none"]

\* message.reactions of message id as ReactionsOfUser reads it
ReactionsNow(held) ==
    [e \in UserEmojis |-> IF e \in held THEN {Member.id} ELSE {}]

\* the callback has entered its `async with` block with the list ms read
\* from the store, and has run to the next await
EnterBlock(f, ms, t) ==
    LET message == [guild |-> GuildOf(f.channel_id), channel |-> f.channel_id,
                    id |-> f.message_id, author_bot |-> TRUE]
        g == [f EXCEPT !.orig = ms, !.copy = ms, !.pc = "exit"]
    IN IF f.op = "on_reaction_add"
       THEN LET verdicts == [i \in DOMAIN ms |-> IsReactedPoll(ms[i], message)]
            IN [g EXCEPT !.after = IF FilterError(verdicts) # "none"
                                   THEN FilterError(verdicts)
                                   ELSE IF FilterItems(ms, verdicts) = <<>>
                                        THEN "return" ELSE "continue"]
       ELSE IF f.op = "on_message_delete"
       THEN [g EXCEPT !.copy = on_message_delete_run(ms, message).messages,
                      !.after = on_message_delete_run(ms, message).outcome]
       ELSE IF f.op = "cleanup_messages"
       THEN [g EXCEPT !.copy = cleanup_messages_run(ms, t).messages,
                      !.after = "return"]
       ELSE LET ctx == [guild |-> GuildOf(f.channel_id), channel |-> f.channel_id]
                verdicts == [i \in DOMAIN ms |-> IsChannelPoll(ms[i], ctx)]
                channel_duck_polls == SortedByCreatedAt(FilterItems(ms, verdicts))
            IN IF FilterError(verdicts) # "none"
               THEN [g EXCEPT !.after = FilterError(verdicts)]
               ELSE IF channel_duck_polls = <<>>
                    THEN [g EXCEPT !.pc = "send_text", !.after = "return"]
               ELSE [g EXCEPT !.pc = "fetch", !.after = "return",
                              !.message_id = SelectedPoll(channel_duck_polls).message_id]

\* the send_stats tasks the stretch creates
CreatedOnEnter(f, ms, t) ==
    IF f.op = "cleanup_messages" THEN cleanup_messages_run(ms, t).created ELSE <<>>

\* what the store holds once the block of f has been left
WrittenBack(f, ms) == IF f.copy # f.orig THEN f.copy ELSE ms

\* where the callback goes on after its block: on_reaction_add alone has code
\* after it
AfterBlock(f) ==
    IF f.op = "on_reaction_add" /\ f.after = "continue"
    THEN [f EXCEPT !.pc = IF f.emoji \notin EmojiSet THEN "clear" ELSE "count"]
    ELSE [f EXCEPT !.pc = "done"]

\* one stretch of a callback that is past the entry of its block; held are
\* the member's emojis on the message, fetch is how fetch_message ends
Stretch(f, held, fetch, reactions) ==
    IF f.pc = "exit" THEN AfterBlock(f)
    ELSE IF f.pc = "count"
         THEN [f EXCEPT !.pc = IF ReactionsOfUser(ReactionsNow(held), Member) > 1
                               THEN "remove" ELSE "done"]
    ELSE IF f.pc = "fetch"
         THEN IF fetch # "ok" THEN [f EXCEPT !.pc = "send_text"]
              ELSE LET poll == CHOOSE m \in Range(f.copy) : m.message_id = f.message_id
                       embed == make_stats_embed(get_stats(reactions), StoredData(poll))
                   IN IF embed.raised # "none"
                      THEN [f EXCEPT !.pc = "exit", !.after = embed.raised]
                      ELSE [f EXCEPT !.pc = "send_embed"]
    ELSE IF f.pc \in {"send_text", "send_embed"} THEN [f EXCEPT !.pc = "exit"]
    ELSE [f EXCEPT !.pc = "done"]

\* the member's emojis on the message once the stretch has been run:
\* clear_reaction and remove_reaction take the emoji of the event away
HeldAfter(f, held) ==
    IF f.pc \in {"clear", "remove"} THEN held \ {f.emoji} ELSE held

StepInit ==
    /\ messages \in StoredLists
    /\ tasks = <<>>
    /\ now = BootTime + LoopSeconds
    /\ live = MsgIds
    /\ last = NoLast
    /\ running = {}
    /\ reacts = [id \in MsgIds |-> {}]

\* the member reacts with emoji to message id: the listener is started
ReactionArrives(id, emoji) ==
    /\ Cardinality(running) < MaxRunning
    /\ id \in live \cap ReactedIds
    /\ emoji \notin reacts[id]
    /\ reacts' = [reacts EXCEPT ![id] = @ \cup {emoji}]
    /\ running' = IF IgnoredReaction(Member, [guild |-> GuildOf(ChannelOf(id))])
                  THEN running
                  ELSE running \cup {Frame("on_reaction_add", id, ChannelOf(id), emoji)}
    /\ UNCHANGED <<messages, tasks, now, live, last>>

\* message id, a message of the bot, is deleted: the listener is started
DeleteArrives(id) ==
    /\ Cardinality(running) < MaxRunning
    /\ id \in live
    /\ live' = live \ {id}
    /\ reacts' = [reacts EXCEPT ![id] = {}]
    /\ running' = IF IgnoredDelete([guild |-> GuildOf(ChannelOf(id)), author_bot |-> TRUE])
                  THEN running
                  ELSE running \cup {Frame("on_message_delete", id, ChannelOf(id), "none")}
    /\ UNCHANGED <<messages, tasks, now, last>>

\* the loop fires; tasks.loop does not start the body while it is running
LoopFires ==
    /\ Cardinality(running) < MaxRunning
    /\ \A f \in running : f.op # "cleanup_messages"
    /\ running' = running \cup {Frame("cleanup_messages", 0, "none", "none")}
    /\ UNCHANGED <<messages, tasks, now, live, last, reacts>>

\* duck stats is invoked in channel
StatsInvoked(channel) ==
    /\ Cardinality(running) < MaxRunning
    /\ running' = running \cup {Frame("duck_stats", 0, channel, "none")}
    /\ UNCHANGED <<messages, tasks, now, live, last, reacts>>

\* a callback runs from one await to the next
Resume(f, fo, reactions) ==
    /\ f \in running
    /\ LET g == IF f.pc = "enter" THEN EnterBlock(f, messages, now)
                ELSE Stretch(f, reacts[f.message_id], Fetch(live, f.message_id, fo),
                             reactions)
       IN /\ running' = (running \ {f}) \cup (IF g.pc = "done" THEN {} ELSE {g})
          /\ messages' = IF f.pc = "exit" THEN WrittenBack(f, messages) ELSE messages
          /\ tasks' = IF f.pc = "enter"
                      THEN tasks \o CreatedOnEnter(f, messages, now) ELSE tasks
          /\ reacts' = IF f.pc \in {"clear", "remove"}
                       THEN [reacts EXCEPT ![f.message_id] = HeldAfter(f, @)]
                       ELSE reacts
    /\ UNCHANGED <<now, live, last>>

StepNext ==
    \/ \E id \in MsgIds, emoji \in UserEmojis \cap EmojiSet : ReactionArrives(id, emoji)
    \/ \E id \in PollIds : DeleteArrives(id)
    \/ LoopFires
    \/ \E channel \in GuildChannels : StatsInvoked(channel)
    \/ \E f \in running :
         \E fo \in IF f.pc = "fetch" THEN FetchOutcomes ELSE {"ok"},
            reactions \in FetchedReactions(f.pc = "fetch") : Resume(f, fo, reactions)

StepSpec == StepInit /\ [][StepNext]_vars

\* C18: whatever the order in which the on_reaction_add runs for the
\* member's reactions on a tracked poll take their stretches, once all of
\* them have ended the member holds at most one recognized reaction on the
\* poll.
C18_AtMostOneReactionAfterHandlers ==
    \A id \in ReactedIds :
        (/\ Tracked(messages, id)
         /\ \A f \in running : f.op # "on_reaction_add")
            => Cardinality(reacts[id] \cap EmojiSet) <= 1

\* C19: no update of the stored list is lost, whatever the order in which
\* on_message_delete, cleanup_messages, on_reaction_add and duck stats take
\* their stretches: a record that has been removed is never in the stored
\* list again, no write-back puts back what another callback removed (every
\* record of the stored list after a step was in it before the step).
C19_NoLostUpdate ==
    [][Range(messages') \subseteq Range(messages)]_vars

\* C19 witness: cleanup_messages has written its removal back while another
\* callback, which read the stored list before that, is still inside its
\* block
C19_Witness ==
    \E f \in running :
        /\ f.op \in {"on_message_delete", "on_reaction_add", "duck_stats"}
        /\ f.pc = "exit"
        /\ f.orig # messages
        /\ tasks # <<>>
        /\ \A g \in running : g.op # "cleanup_messages"

=============================================================================
